---- MODULE Spec2Model ----
\* Session lifecycle and request dispatch of SikkaClient
\* (src/unnamed/part_000, lines 329-563).
\* Time is counted in units of 30 minutes; tokens are numbered by issue order.
EXTENDS Integers, Sequences, FiniteSets, TLC

\* ---------------------------------------------------------------- bounds
Procs == {1, 2}
MaxTime == 2
MaxIssue == 2
\* SikkaClient instances
Clients == {"A", "B"}
ClientA == "A"
ClientB == "B"

\* ---------------------------------------------------------------- constants
\* 60 * 60 * 1_000 ms, i.e. two 30-minute units
OneHour == 2

\* null for string fields (requestKey, refreshKey)
Null == 0
\* null and Invalid Date for requestKeyExpiresAt
NullTime == -1
InvalidDate == -2

VARIABLES
    requestKey,            \* SikkaClient.requestKey
    refreshKey,            \* SikkaClient.refreshKey
    requestKeyExpiresAt,   \* SikkaClient.requestKeyExpiresAt
    now,                   \* Date.now()
    bind,                  \* per caller: the SikkaClient instance whose method it calls
    tokErrBodies,          \* bodies the token endpoint answers a rejected request with
    getParamSet,           \* params objects callers pass to get()
    domTextSet,            \* bodies the domain endpoints answer HTTP 200 with
    fetchFaults,           \* ways a fetch may fail other than an HTTP status
    issued,                \* number of keys minted by the token endpoint
    pc,                    \* per caller: "idle" | "tokWait" | "resume" | "domWait"
    op,                    \* per caller: operation in progress / last run
    net,                   \* per caller: HTTP requests sent by the current operation
    refreshed,             \* per caller: ensureAuthenticated called refreshAuthentication
    ret,                   \* per caller: outcome of the last operation
    tokResp,               \* per caller: token-endpoint response received by the current operation
    args,                  \* per caller: GET query params / POST body passed to get/post
    domResp,               \* per caller: domain response received by the current operation
    logs,                  \* per caller: debug log entries of the current get/post
    clearedAwaiting,       \* per caller (history): clearAuth() ran on its instance while
                           \* its current get/post awaited the token endpoint
    qIn,                   \* input of the query-building functions (list accessors, get URL)
    qOut                   \* their result

vars == <<requestKey, refreshKey, requestKeyExpiresAt, now, bind, tokErrBodies, getParamSet,
          domTextSet, fetchFaults, issued,
          pc, op, net, refreshed, ret, tokResp, args, domResp, logs, clearedAwaiting, qIn, qOut>>
domVars == <<args, domResp, logs>>
pureVars == <<qIn, qOut>>
\* what callers and endpoints may pass in; fixed per specification
envVars == <<tokErrBodies, getParamSet, domTextSet, fetchFaults>>

NoRet == [tag |-> "none", cat |-> "", detail |-> "", b |-> FALSE, key |-> Null, items |-> -1]
OkRet == [NoRet EXCEPT !.tag = "ok"]
ErrRet(c, d) == [NoRet EXCEPT !.tag = "err", !.cat = c, !.detail = d]
\* error.name of what is thrown: `new Error(...)` for every failure the client
\* raises; RangeError (toISOString), SyntaxError (JSON.parse, response.json())
\* and TypeError (a rejected fetch) from the runtime
ErrorName(c) == IF c \in {"RangeError", "SyntaxError", "TypeError"} THEN c ELSE "Error"

NotAuthMsg == "Not authenticated. Call authenticate() first."
NoRefreshMsg == "No refresh key available. Call authenticate() first."

\* A Date value that is not null (a Date object, even Invalid Date, is truthy)
IsDate(t) == t # NullTime
\* Date comparison: Invalid Date (NaN) compares false with everything
ValidTime(t) == t >= 0


\* ---------------------------------------------------------------- inputs
\* end_time offsets returned by the token endpoint (30 min, 90 min) and an unparsable end_time
EndOffsets == {1, 3}
TokenErrStatuses == {401}
StatusLine(s) == IF s = 401 THEN "401 Unauthorized" ELSE "500 Internal Server Error"
\* a field of the SikkaApiError body: missing, null, "" or a text
FieldVals == {"absent", "null", "empty", "s"}
Body(k, d, e, m) == [kind |-> k, ed |-> d, er |-> e, me |-> m]
\* bodies of a failed token response: not JSON, JSON null, and objects where
\* each of error_description / error / message is the first usable field,
\* none is, or error_description is "" (kept by ??)
ErrBodies ==
    { Body("unparsable", "absent", "absent", "absent"),
      Body("null", "absent", "absent", "absent"),
      Body("obj", "absent", "absent", "absent"),
      Body("obj", "s", "s", "s"),
      Body("obj", "null", "s", "s"),
      Body("obj", "absent", "absent", "s"),
      Body("obj", "empty", "s", "absent"),
      Body("obj", "absent", "null", "null") }
\* the body used where the message text is not under study
SpecErrBodies == {Body("obj", "s", "s", "s")}
\* fetch() rejects (network error: TypeError "fetch failed"); a token response
\* with HTTP 200 whose body is not JSON (response.json() rejects)
FetchFaults == {"reject", "badJson"}
FetchFailedMsg == "fetch failed"
FieldStr(name, v) ==
    IF v = "empty" THEN ""
    ELSE IF name = "error_description" THEN "Invalid secret key"
    ELSE IF name = "error" THEN "invalid_credentials"
    ELSE "Bad request"
Nullish(v) == v \in {"absent", "null"}

\* variant: `||` instead of `??` (an empty field falls through)
requestNewKeyErrMsgOr(status, body) ==
    LET errorMessage ==
          IF body.kind # "obj" THEN StatusLine(status)
          ELSE IF ~Nullish(body.ed) /\ body.ed # "empty" THEN FieldStr("error_description", body.ed)
          ELSE IF ~Nullish(body.er) /\ body.er # "empty" THEN FieldStr("error", body.er)
          ELSE IF ~Nullish(body.me) /\ body.me # "empty" THEN FieldStr("message", body.me)
          ELSE StatusLine(status)
    IN "Sikka authentication failed: " \o errorMessage

\* requestNewKey, failure branch: message of the thrown Error.
\* An unparsable body makes response.json() throw; a JSON null body makes
\* the property read throw; both are caught and the fallback is kept.
requestNewKeyErrMsg(status, body) ==
    LET errorMessage ==
          IF body.kind # "obj" THEN StatusLine(status)
          ELSE IF ~Nullish(body.ed) THEN FieldStr("error_description", body.ed)
          ELSE IF ~Nullish(body.er) THEN FieldStr("error", body.er)
          ELSE IF ~Nullish(body.me) THEN FieldStr("message", body.me)
          ELSE StatusLine(status)
    IN "Sikka authentication failed: " \o errorMessage

NoBody == Body("none", "absent", "absent", "absent")

\* request keys / refresh keys as strings; refresh keys are numbered apart
TokStr(n) == "rk-" \o ToString(n)
RefreshKeyOf(n) == 10 + n

\* end_time as sent by the endpoint, and new Date(end_time)
TimeRange == 0..(MaxTime + 3)
\* model instant t is 2026-10-15T00:00:00Z plus t half-hours
Pad2(n) == IF n < 10 THEN "0" \o ToString(n) ELSE ToString(n)
EndTimeStr(t) == "2026-10-15T" \o Pad2(t \div 2) \o ":" \o Pad2((t % 2) * 30) \o ":00Z"
BadEndTime == "not-a-date"
Digits == "0123456789"
IsDigit(c) == \E d \in 0..9 : SubSeq(Digits, d + 1, d + 1) = c
DigitVal(c) == CHOOSE d \in 0..9 : SubSeq(Digits, d + 1, d + 1) = c
Num2(str, i) == 10 * DigitVal(SubSeq(str, i, i)) + DigitVal(SubSeq(str, i + 1, i + 1))
\* "2026-10-15THH:MM:SSZ", an ISO date-time string of the model's day
IsDayInstant(str) ==
    /\ Len(str) = 20
    /\ SubSeq(str, 1, 11) = "2026-10-15T"
    /\ \A i \in {12, 13, 15, 16, 18, 19} : IsDigit(SubSeq(str, i, i))
    /\ SubSeq(str, 14, 14) = ":" /\ SubSeq(str, 17, 17) = ":" /\ SubSeq(str, 20, 20) = "Z"
    /\ Num2(str, 12) < 24 /\ Num2(str, 15) < 60 /\ Num2(str, 18) < 60
DaySeconds(str) == (Num2(str, 12) * 60 + Num2(str, 15)) * 60 + Num2(str, 18)
\* new Date(str) in half-hour units: a string with no digit is an Invalid
\* Date; instants off the half-hour grid of the model's day have no model
\* value (TLC stops with an error if one is ever parsed)
ParseDate(str) ==
    IF IsDayInstant(str) /\ DaySeconds(str) % 1800 = 0
    THEN DaySeconds(str) \div 1800
    ELSE IF \A i \in 1..Len(str) : ~IsDigit(SubSeq(str, i, i))
    THEN InvalidDate
    ELSE CHOOSE t \in {} : TRUE
\* expires_in of the token response: 24 hours, in 30-minute units
ExpiresIn == 48

NoResp == [kind |-> "none", status |-> 0, body |-> NoBody, key |-> Null,
           rkey |-> Null, end |-> "", expiresIn |-> 0]

\* credentials given to the constructor
AppId == "app-id"
AppKey == "app-key"
OfficeId == "office-id"
SecretKey == "secret-key"

\* requestNewKey: POST /v4/request_key with the SikkaRequestKeyRequest body,
\* Content-Type header only
\* variant: the office secrets also sent on refresh
KeyRequestBodyAll(grant, rk) ==
    IF grant = "request_key"
    THEN [app_id |-> AppId, app_key |-> AppKey, grant_type |-> grant,
          office_id |-> OfficeId, secret_key |-> SecretKey]
    ELSE [app_id |-> AppId, app_key |-> AppKey, grant_type |-> grant,
          office_id |-> OfficeId, secret_key |-> SecretKey, refresh_key |-> rk]

KeyRequestBody(grant, rk) ==
    IF grant = "request_key"
    THEN [app_id |-> AppId, app_key |-> AppKey, grant_type |-> grant,
          office_id |-> OfficeId, secret_key |-> SecretKey]
    ELSE [app_id |-> AppId, app_key |-> AppKey, grant_type |-> grant,
          refresh_key |-> rk]
TokenReq(grant, rk) ==
    [kind |-> "token", url |-> "/v4/request_key", query |-> <<>>, hdr |-> "",
     body |-> KeyRequestBody(grant, rk)]

\* variant: URLSearchParams.append instead of set
SetParamAppend(q, k, v) == Append(q, <<k, v>>)

\* URLSearchParams.set: replaces the first pair with that key and drops the
\* others, or appends
RECURSIVE DropKey(_, _)
DropKey(q, k) ==
    IF q = <<>> THEN <<>>
    ELSE IF Head(q)[1] = k THEN DropKey(Tail(q), k)
    ELSE <<Head(q)>> \o DropKey(Tail(q), k)
SetParam(q, k, v) ==
    IF \E i \in 1..Len(q) : q[i][1] = k
    THEN LET i == CHOOSE j \in 1..Len(q) : q[j][1] = k /\ \A l \in 1..(j - 1) : q[l][1] # k
         IN SubSeq(q, 1, i - 1) \o <<<<k, v>>>> \o DropKey(SubSeq(q, i + 1, Len(q)), k)
    ELSE Append(q, <<k, v>>)
RECURSIVE SetAll(_, _)
SetAll(q, params) ==
    IF params = <<>> THEN q
    ELSE SetAll(SetParam(q, Head(params)[1], Head(params)[2]), Tail(params))
\* get: url.searchParams.set('request_key', requestKey), then each entry of params
GetQuery(token, params) == SetAll(<<<<"request_key", token>>>>, params)
\* post: only request_key
PostQuery(token) == SetParam(<<>>, "request_key", token)

\* get/post arguments: GET params (Object.entries order) or the POST body
NoArgs == <<>>
GetParamChoices == {<<>>, <<<<"request_key", "caller-key">>>>}
PostBody == <<<<"claim_sr_no", "123456">>>>
GetEndpoint == "/v4/patients"
PostEndpoint == "/v4/claim_payment"

\* domain responses: status and body text
JsonText == "{\"items\":[{}]}"
Whitespace == "  "
DomainTexts == {"", Whitespace, JsonText}
DomainErrTexts == {"Bad gateway"}
NoDomResp == [status |-> 0, text |-> ""]
\* variant: no trim()
TrimNone(t) == t

Trim(t) == IF t = Whitespace THEN "" ELSE t
\* JSON.parse / response.json(): item count, or -1 for a SyntaxError
ParseItems(t) == IF t = JsonText THEN 1 ELSE -1

\* input of the pure query functions before evaluation, and their result
NoQIn == [kind |-> "none"]
NoQOut == [done |-> FALSE, query |-> <<>>, hdr |-> "", result |-> <<>>]

InitSession ==
    /\ requestKey = [c \in Clients |-> Null]
    /\ refreshKey = [c \in Clients |-> Null]
    /\ requestKeyExpiresAt = [c \in Clients |-> NullTime]
    /\ now = 0
    /\ issued = 0
    /\ pc = [p \in Procs |-> "idle"]
    /\ op = [p \in Procs |-> "none"]
    /\ net = [p \in Procs |-> <<>>]
    /\ refreshed = [p \in Procs |-> FALSE]
    /\ ret = [p \in Procs |-> NoRet]
    /\ tokResp = [p \in Procs |-> NoResp]
    /\ args = [p \in Procs |-> NoArgs]
    /\ domResp = [p \in Procs |-> NoDomResp]
    /\ logs = [p \in Procs |-> <<>>]
    /\ clearedAwaiting = [p \in Procs |-> FALSE]

Init ==
    /\ InitSession
    /\ bind = [p \in Procs |-> ClientA]
    /\ tokErrBodies = SpecErrBodies
    /\ getParamSet = {NoArgs}
    /\ domTextSet = {JsonText}
    /\ fetchFaults = {}
    /\ qIn = NoQIn
    /\ qOut = NoQOut

\* a caller starts a SikkaClient method: per-call records start empty
StartOp(p, o) ==
    /\ pc[p] = "idle"
    /\ op' = [op EXCEPT ![p] = o]
    /\ tokResp' = [tokResp EXCEPT ![p] = NoResp]
    /\ domResp' = [domResp EXCEPT ![p] = NoDomResp]
    /\ logs' = [logs EXCEPT ![p] = <<>>]
    /\ clearedAwaiting' = [q \in Procs |->
                             IF q = p THEN FALSE
                             ELSE IF o = "clear" /\ bind[q] = bind[p] /\ pc[q] = "tokWait"
                                     /\ op[q] \in {"get", "post"} THEN TRUE
                             ELSE clearedAwaiting[q]]
    /\ UNCHANGED pureVars

\* variant: requestKeyExpiresAt / refreshKey left in place
clearAuthPartial(p) ==
    /\ StartOp(p, "clear")
    /\ args' = [args EXCEPT ![p] = NoArgs]
    /\ requestKey' = [requestKey EXCEPT ![bind[p]] = Null]
    /\ net' = [net EXCEPT ![p] = <<>>]
    /\ refreshed' = [refreshed EXCEPT ![p] = FALSE]
    /\ ret' = [ret EXCEPT ![p] = OkRet]
    /\ UNCHANGED <<now, bind, envVars, issued, pc, refreshKey, requestKeyExpiresAt>>

\* clearAuth(): resets the triple
\* clearAuth() as if the session fields were shared by all instances
clearAuthAll(p) ==
    /\ StartOp(p, "clear")
    /\ args' = [args EXCEPT ![p] = NoArgs]
    /\ requestKey' = [c \in Clients |-> Null]
    /\ refreshKey' = [c \in Clients |-> Null]
    /\ requestKeyExpiresAt' = [c \in Clients |-> NullTime]
    /\ net' = [net EXCEPT ![p] = <<>>]
    /\ refreshed' = [refreshed EXCEPT ![p] = FALSE]
    /\ ret' = [ret EXCEPT ![p] = OkRet]
    /\ UNCHANGED <<now, bind, envVars, issued, pc>>

clearAuth(p) ==
    /\ StartOp(p, "clear")
    /\ args' = [args EXCEPT ![p] = NoArgs]
    /\ requestKey' = [requestKey EXCEPT ![bind[p]] = Null]
    /\ refreshKey' = [refreshKey EXCEPT ![bind[p]] = Null]
    /\ requestKeyExpiresAt' = [requestKeyExpiresAt EXCEPT ![bind[p]] = NullTime]
    /\ net' = [net EXCEPT ![p] = <<>>]
    /\ refreshed' = [refreshed EXCEPT ![p] = FALSE]
    /\ ret' = [ret EXCEPT ![p] = OkRet]
    /\ UNCHANGED <<now, bind, envVars, issued, pc>>

\* authenticate(): synchronous part up to fetch in requestNewKey
authenticate(p) ==
    /\ StartOp(p, "auth")
    /\ args' = [args EXCEPT ![p] = NoArgs]
    /\ net' = [net EXCEPT ![p] = <<TokenReq("request_key", Null)>>]
    /\ pc' = [pc EXCEPT ![p] = "tokWait"]
    /\ refreshed' = [refreshed EXCEPT ![p] = FALSE]
    /\ ret' = [ret EXCEPT ![p] = NoRet]
    /\ UNCHANGED <<requestKey, refreshKey, requestKeyExpiresAt, now, bind, envVars, issued>>

\* variant: no refresh-key guard
RefreshStartNoGuard(p) ==
    /\ net' = [net EXCEPT ![p] = <<TokenReq("refresh_key", refreshKey[bind[p]])>>]
    /\ pc' = [pc EXCEPT ![p] = "tokWait"]
    /\ ret' = [ret EXCEPT ![p] = NoRet]

\* refreshAuthentication(), synchronous part: the refresh-key guard, then the
\* request body built from the held refresh key and sent by requestNewKey.
\* Used directly and from ensureAuthenticated.
RefreshStart(p) ==
    IF refreshKey[bind[p]] = Null
    THEN /\ ret' = [ret EXCEPT ![p] = ErrRet("NoRefreshKey", NoRefreshMsg)]
         /\ pc' = [pc EXCEPT ![p] = "idle"]
         /\ net' = [net EXCEPT ![p] = <<>>]
    ELSE /\ net' = [net EXCEPT ![p] = <<TokenReq("refresh_key", refreshKey[bind[p]])>>]
         /\ pc' = [pc EXCEPT ![p] = "tokWait"]
         /\ ret' = [ret EXCEPT ![p] = NoRet]

refreshAuthentication(p) ==
    /\ StartOp(p, "refresh")
    /\ args' = [args EXCEPT ![p] = NoArgs]
    /\ refreshed' = [refreshed EXCEPT ![p] = FALSE]
    /\ RefreshStart(p)
    /\ UNCHANGED <<requestKey, refreshKey, requestKeyExpiresAt, now, bind, envVars, issued>>

\* ensureAuthenticated() returns without refreshing: get/post resume after
\* the await, a direct call resolves
EnsureResolved(p) ==
    /\ pc' = [pc EXCEPT ![p] = IF op'[p] = "ensure" THEN "idle" ELSE "resume"]
    /\ ret' = [ret EXCEPT ![p] = IF op'[p] = "ensure" THEN OkRet ELSE NoRet]

\* variant: refresh only once the key has expired (no one-hour margin)
ensureAuthenticatedNoMargin(p) ==
    IF requestKey[bind[p]] = Null
    THEN /\ ret' = [ret EXCEPT ![p] = ErrRet("NotAuthenticated", NotAuthMsg)]
         /\ pc' = [pc EXCEPT ![p] = "idle"]
         /\ refreshed' = [refreshed EXCEPT ![p] = FALSE]
         /\ net' = [net EXCEPT ![p] = <<>>]
    ELSE IF IsDate(requestKeyExpiresAt[bind[p]]) /\ ValidTime(requestKeyExpiresAt[bind[p]])
            /\ requestKeyExpiresAt[bind[p]] < now
    THEN /\ refreshed' = [refreshed EXCEPT ![p] = TRUE]
         /\ RefreshStart(p)
    ELSE /\ refreshed' = [refreshed EXCEPT ![p] = FALSE]
         /\ net' = [net EXCEPT ![p] = <<>>]
         /\ EnsureResolved(p)

\* variant: no requestKey guard
ensureAuthenticatedNoGuard(p) ==
    IF IsDate(requestKeyExpiresAt[bind[p]]) /\ ValidTime(requestKeyExpiresAt[bind[p]])
            /\ requestKeyExpiresAt[bind[p]] < now + OneHour
    THEN /\ refreshed' = [refreshed EXCEPT ![p] = TRUE]
         /\ RefreshStart(p)
    ELSE /\ refreshed' = [refreshed EXCEPT ![p] = FALSE]
         /\ net' = [net EXCEPT ![p] = <<>>]
         /\ EnsureResolved(p)

\* variant: a caller that finds a refresh of the same instance in flight
\* does not start its own
ensureAuthenticatedShared(p) ==
    IF \E q \in Procs \ {p} : bind[q] = bind[p] /\ pc[q] = "tokWait" /\ refreshed[q]
    THEN /\ refreshed' = [refreshed EXCEPT ![p] = FALSE]
         /\ net' = [net EXCEPT ![p] = <<>>]
         /\ EnsureResolved(p)
    ELSE IF requestKey[bind[p]] = Null
    THEN /\ ret' = [ret EXCEPT ![p] = ErrRet("NotAuthenticated", NotAuthMsg)]
         /\ pc' = [pc EXCEPT ![p] = "idle"]
         /\ refreshed' = [refreshed EXCEPT ![p] = FALSE]
         /\ net' = [net EXCEPT ![p] = <<>>]
    ELSE IF IsDate(requestKeyExpiresAt[bind[p]]) /\ ValidTime(requestKeyExpiresAt[bind[p]])
            /\ requestKeyExpiresAt[bind[p]] < now + OneHour
    THEN /\ refreshed' = [refreshed EXCEPT ![p] = TRUE]
         /\ RefreshStart(p)
    ELSE /\ refreshed' = [refreshed EXCEPT ![p] = FALSE]
         /\ net' = [net EXCEPT ![p] = <<>>]
         /\ EnsureResolved(p)

\* variant: an already expired token is rejected instead of refreshed
ensureAuthenticatedRejectExpired(p) ==
    IF requestKey[bind[p]] = Null
       \/ (ValidTime(requestKeyExpiresAt[bind[p]]) /\ requestKeyExpiresAt[bind[p]] < now)
    THEN /\ ret' = [ret EXCEPT ![p] = ErrRet("NotAuthenticated", NotAuthMsg)]
         /\ pc' = [pc EXCEPT ![p] = "idle"]
         /\ refreshed' = [refreshed EXCEPT ![p] = FALSE]
         /\ net' = [net EXCEPT ![p] = <<>>]
    ELSE IF IsDate(requestKeyExpiresAt[bind[p]]) /\ ValidTime(requestKeyExpiresAt[bind[p]])
            /\ requestKeyExpiresAt[bind[p]] < now + OneHour
    THEN /\ refreshed' = [refreshed EXCEPT ![p] = TRUE]
         /\ RefreshStart(p)
    ELSE /\ refreshed' = [refreshed EXCEPT ![p] = FALSE]
         /\ net' = [net EXCEPT ![p] = <<>>]
         /\ EnsureResolved(p)

\* variant: refresh unless the expiry is known to be an hour away
\* (`!(expiresAt >= oneHourFromNow)`), so an Invalid Date is refreshed
ensureAuthenticatedNotAfter(p) ==
    IF requestKey[bind[p]] = Null
    THEN /\ ret' = [ret EXCEPT ![p] = ErrRet("NotAuthenticated", NotAuthMsg)]
         /\ pc' = [pc EXCEPT ![p] = "idle"]
         /\ refreshed' = [refreshed EXCEPT ![p] = FALSE]
         /\ net' = [net EXCEPT ![p] = <<>>]
    ELSE IF IsDate(requestKeyExpiresAt[bind[p]])
            /\ ~(ValidTime(requestKeyExpiresAt[bind[p]])
                  /\ requestKeyExpiresAt[bind[p]] >= now + OneHour)
    THEN /\ refreshed' = [refreshed EXCEPT ![p] = TRUE]
         /\ RefreshStart(p)
    ELSE /\ refreshed' = [refreshed EXCEPT ![p] = FALSE]
         /\ net' = [net EXCEPT ![p] = <<>>]
         /\ EnsureResolved(p)

\* ensureAuthenticated() as called at the start of get/post, up to its first
\* suspension: the requestKey guard, the one-hour check and, if needed, the
\* synchronous part of refreshAuthentication. When no refresh is needed the
\* caller resumes after the await (pc "resume").
ensureAuthenticated(p) ==
    IF requestKey[bind[p]] = Null
    THEN /\ ret' = [ret EXCEPT ![p] = ErrRet("NotAuthenticated", NotAuthMsg)]
         /\ pc' = [pc EXCEPT ![p] = "idle"]
         /\ refreshed' = [refreshed EXCEPT ![p] = FALSE]
         /\ net' = [net EXCEPT ![p] = <<>>]
    ELSE IF IsDate(requestKeyExpiresAt[bind[p]]) /\ ValidTime(requestKeyExpiresAt[bind[p]])
            /\ requestKeyExpiresAt[bind[p]] < now + OneHour
    THEN /\ refreshed' = [refreshed EXCEPT ![p] = TRUE]
         /\ RefreshStart(p)
    ELSE /\ refreshed' = [refreshed EXCEPT ![p] = FALSE]
         /\ net' = [net EXCEPT ![p] = <<>>]
         /\ EnsureResolved(p)

\* get(endpoint, params): starts with ensureAuthenticated
get(p) ==
    /\ StartOp(p, "get")
    /\ \E prm \in getParamSet : args' = [args EXCEPT ![p] = prm]
    /\ ensureAuthenticated(p)
    /\ UNCHANGED <<requestKey, refreshKey, requestKeyExpiresAt, now, bind, envVars, issued>>

\* ensureAuthenticated() called directly: it is a public method
callEnsureAuthenticated(p) ==
    /\ StartOp(p, "ensure")
    /\ args' = [args EXCEPT ![p] = NoArgs]
    /\ ensureAuthenticated(p)
    /\ UNCHANGED <<requestKey, refreshKey, requestKeyExpiresAt, now, bind, envVars, issued>>

\* post(endpoint, body): starts with ensureAuthenticated
post(p) ==
    /\ StartOp(p, "post")
    /\ args' = [args EXCEPT ![p] = PostBody]
    /\ ensureAuthenticated(p)
    /\ UNCHANGED <<requestKey, refreshKey, requestKeyExpiresAt, now, bind, envVars, issued>>

\* variant: expiry computed from expires_in instead of end_time
TokenOkExpiresIn(p) ==
    /\ pc[p] = "tokWait"
    /\ issued < MaxIssue
    /\ \E end \in {EndTimeStr(now + d) : d \in EndOffsets} \cup {BadEndTime} :
        LET resp == [kind |-> "ok", status |-> 200, body |-> NoBody, key |-> issued + 1,
                     rkey |-> RefreshKeyOf(issued + 1), end |-> end, expiresIn |-> ExpiresIn]
        IN
        /\ tokResp' = [tokResp EXCEPT ![p] = resp]
        /\ requestKey' = [requestKey EXCEPT ![bind[p]] = resp.key]
        /\ refreshKey' = [refreshKey EXCEPT ![bind[p]] = resp.rkey]
        /\ requestKeyExpiresAt' = [requestKeyExpiresAt EXCEPT ![bind[p]] = now + resp.expiresIn]
        /\ issued' = issued + 1
        /\ IF op[p] \in {"auth", "refresh", "ensure"}
           THEN /\ ret' = [ret EXCEPT ![p] = OkRet]
                /\ pc' = [pc EXCEPT ![p] = "idle"]
           ELSE /\ pc' = [pc EXCEPT ![p] = "resume"]
                /\ UNCHANGED ret
    /\ UNCHANGED <<now, bind, envVars, clearedAwaiting, op, net, refreshed, domVars, pureVars>>

\* requestNewKey returns (response.ok) and authenticate/refreshAuthentication
\* store request_key, refresh_key and new Date(end_time); the following
\* toISOString() throws RangeError on an Invalid Date, after the triple was
\* stored. A refresh done for get/post returns into ensureAuthenticated and
\* the caller resumes.
\* variant: get/post re-check the refreshed token and refresh again while it
\* is still within the hour
TokenOkRecheck(p) ==
    /\ pc[p] = "tokWait"
    /\ issued < MaxIssue
    /\ \E end \in {EndTimeStr(now + d) : d \in EndOffsets} \cup {BadEndTime} :
        LET resp == [kind |-> "ok", status |-> 200, body |-> NoBody, key |-> issued + 1,
                     rkey |-> RefreshKeyOf(issued + 1), end |-> end, expiresIn |-> ExpiresIn]
            again == op[p] \in {"get", "post"} /\ ParseDate(resp.end) # InvalidDate
                     /\ ParseDate(resp.end) < now + OneHour
        IN
        /\ tokResp' = [tokResp EXCEPT ![p] = resp]
        /\ requestKey' = [requestKey EXCEPT ![bind[p]] = resp.key]
        /\ refreshKey' = [refreshKey EXCEPT ![bind[p]] = resp.rkey]
        /\ requestKeyExpiresAt' = [requestKeyExpiresAt EXCEPT ![bind[p]] = ParseDate(resp.end)]
        /\ issued' = issued + 1
        /\ net' = IF again THEN [net EXCEPT ![p] = Append(@, TokenReq("refresh_key", resp.rkey))]
                  ELSE net
        /\ IF ParseDate(resp.end) = InvalidDate
           THEN /\ ret' = [ret EXCEPT ![p] = ErrRet("RangeError", "Invalid time value")]
                /\ pc' = [pc EXCEPT ![p] = "idle"]
           ELSE IF op[p] \in {"auth", "refresh", "ensure"}
           THEN /\ ret' = [ret EXCEPT ![p] = OkRet]
                /\ pc' = [pc EXCEPT ![p] = "idle"]
           ELSE /\ pc' = [pc EXCEPT ![p] = IF again THEN "tokWait" ELSE "resume"]
                /\ UNCHANGED ret
    /\ UNCHANGED <<now, bind, envVars, clearedAwaiting, op, refreshed, domVars, pureVars>>

\* variant: a refresh response is dropped when the session was rotated since
\* its request was sent (first writer wins)
TokenOkFirstWins(p) ==
    IF /\ Len(net[p]) > 0 /\ net[p][Len(net[p])].body.grant_type = "refresh_key"
       /\ net[p][Len(net[p])].body.refresh_key # refreshKey[bind[p]]
    THEN /\ pc[p] = "tokWait"
         /\ issued < MaxIssue
         /\ \E end \in {EndTimeStr(now + d) : d \in EndOffsets} :
              tokResp' = [tokResp EXCEPT ![p] = [kind |-> "ok", status |-> 200, body |-> NoBody,
                              key |-> issued + 1, rkey |-> RefreshKeyOf(issued + 1), end |-> end,
                              expiresIn |-> ExpiresIn]]
         /\ issued' = issued + 1
         /\ ret' = [ret EXCEPT ![p] = IF op[p] \in {"auth", "refresh", "ensure"} THEN OkRet ELSE ret[p]]
         /\ pc' = [pc EXCEPT ![p] = IF op[p] \in {"auth", "refresh", "ensure"} THEN "idle" ELSE "resume"]
         /\ UNCHANGED <<requestKey, refreshKey, requestKeyExpiresAt, now, bind, envVars, clearedAwaiting, op, net,
                        refreshed, domVars, pureVars>>
    ELSE
    /\ pc[p] = "tokWait"
    /\ issued < MaxIssue
    /\ \E end \in {EndTimeStr(now + d) : d \in EndOffsets} \cup {BadEndTime} :
        LET resp == [kind |-> "ok", status |-> 200, body |-> NoBody, key |-> issued + 1,
                     rkey |-> RefreshKeyOf(issued + 1), end |-> end, expiresIn |-> ExpiresIn]
        IN
        /\ tokResp' = [tokResp EXCEPT ![p] = resp]
        /\ requestKey' = [requestKey EXCEPT ![bind[p]] = resp.key]
        /\ refreshKey' = [refreshKey EXCEPT ![bind[p]] = resp.rkey]
        /\ requestKeyExpiresAt' = [requestKeyExpiresAt EXCEPT ![bind[p]] = ParseDate(resp.end)]
        /\ issued' = issued + 1
        /\ IF ParseDate(resp.end) = InvalidDate
           THEN /\ ret' = [ret EXCEPT ![p] = ErrRet("RangeError", "Invalid time value")]
                /\ pc' = [pc EXCEPT ![p] = "idle"]
           ELSE IF op[p] \in {"auth", "refresh", "ensure"}
           THEN /\ ret' = [ret EXCEPT ![p] = OkRet]
                /\ pc' = [pc EXCEPT ![p] = "idle"]
           ELSE /\ pc' = [pc EXCEPT ![p] = "resume"]
                /\ UNCHANGED ret
    /\ UNCHANGED <<now, bind, envVars, clearedAwaiting, op, net, refreshed, domVars, pureVars>>

\* variant: a refresh that finds the session cleared stores nothing
TokenOkKeepCleared(p) ==
    IF op[p] = "refresh" /\ requestKey[bind[p]] = Null
    THEN /\ pc[p] = "tokWait"
         /\ issued < MaxIssue
         /\ \E end \in {EndTimeStr(now + d) : d \in EndOffsets} :
              tokResp' = [tokResp EXCEPT ![p] = [kind |-> "ok", status |-> 200, body |-> NoBody,
                              key |-> issued + 1, rkey |-> RefreshKeyOf(issued + 1), end |-> end,
                              expiresIn |-> ExpiresIn]]
         /\ issued' = issued + 1
         /\ ret' = [ret EXCEPT ![p] = OkRet]
         /\ pc' = [pc EXCEPT ![p] = "idle"]
         /\ UNCHANGED <<requestKey, refreshKey, requestKeyExpiresAt, now, bind, envVars, clearedAwaiting, op, net,
                        refreshed, domVars, pureVars>>
    ELSE
    /\ pc[p] = "tokWait"
    /\ issued < MaxIssue
    /\ \E end \in {EndTimeStr(now + d) : d \in EndOffsets} \cup {BadEndTime} :
        LET resp == [kind |-> "ok", status |-> 200, body |-> NoBody, key |-> issued + 1,
                     rkey |-> RefreshKeyOf(issued + 1), end |-> end, expiresIn |-> ExpiresIn]
        IN
        /\ tokResp' = [tokResp EXCEPT ![p] = resp]
        /\ requestKey' = [requestKey EXCEPT ![bind[p]] = resp.key]
        /\ refreshKey' = [refreshKey EXCEPT ![bind[p]] = resp.rkey]
        /\ requestKeyExpiresAt' = [requestKeyExpiresAt EXCEPT ![bind[p]] = ParseDate(resp.end)]
        /\ issued' = issued + 1
        /\ IF ParseDate(resp.end) = InvalidDate
           THEN /\ ret' = [ret EXCEPT ![p] = ErrRet("RangeError", "Invalid time value")]
                /\ pc' = [pc EXCEPT ![p] = "idle"]
           ELSE IF op[p] \in {"auth", "refresh", "ensure"}
           THEN /\ ret' = [ret EXCEPT ![p] = OkRet]
                /\ pc' = [pc EXCEPT ![p] = "idle"]
           ELSE /\ pc' = [pc EXCEPT ![p] = "resume"]
                /\ UNCHANGED ret
    /\ UNCHANGED <<now, bind, envVars, clearedAwaiting, op, net, refreshed, domVars, pureVars>>

TokenOk(p) ==
    /\ pc[p] = "tokWait"
    /\ issued < MaxIssue
    /\ \E end \in {EndTimeStr(now + d) : d \in EndOffsets} \cup {BadEndTime} :
        LET resp == [kind |-> "ok", status |-> 200, body |-> NoBody, key |-> issued + 1,
                     rkey |-> RefreshKeyOf(issued + 1), end |-> end, expiresIn |-> ExpiresIn]
        IN
        /\ tokResp' = [tokResp EXCEPT ![p] = resp]
        /\ requestKey' = [requestKey EXCEPT ![bind[p]] = resp.key]
        /\ refreshKey' = [refreshKey EXCEPT ![bind[p]] = resp.rkey]
        /\ requestKeyExpiresAt' = [requestKeyExpiresAt EXCEPT ![bind[p]] = ParseDate(resp.end)]
        /\ issued' = issued + 1
        /\ IF ParseDate(resp.end) = InvalidDate
           THEN /\ ret' = [ret EXCEPT ![p] = ErrRet("RangeError", "Invalid time value")]
                /\ pc' = [pc EXCEPT ![p] = "idle"]
           ELSE IF op[p] \in {"auth", "refresh", "ensure"}
           THEN /\ ret' = [ret EXCEPT ![p] = OkRet]
                /\ pc' = [pc EXCEPT ![p] = "idle"]
           ELSE /\ pc' = [pc EXCEPT ![p] = "resume"]
                /\ UNCHANGED ret
    /\ UNCHANGED <<now, bind, envVars, clearedAwaiting, op, net, refreshed, domVars, pureVars>>

\* variant: a failed refresh inside get/post is swallowed and the call goes on
TokenFailSwallow(p) ==
    /\ pc[p] = "tokWait"
    /\ \E s \in TokenErrStatuses, body \in tokErrBodies :
        /\ ret' = [ret EXCEPT ![p] = ErrRet("AuthFailed", requestNewKeyErrMsg(s, body))]
        /\ tokResp' = [tokResp EXCEPT ![p] = [NoResp EXCEPT !.kind = "fail", !.status = s,
                                                           !.body = body]]
    /\ pc' = [pc EXCEPT ![p] = IF op[p] \in {"get", "post"} THEN "resume" ELSE "idle"]
    /\ UNCHANGED <<requestKey, refreshKey, requestKeyExpiresAt, now, bind, envVars, clearedAwaiting, issued, op, net,
                   refreshed, domVars, pureVars>>

\* variant: a rejected token request is sent once more
TokenFailRetry(p) ==
    /\ pc[p] = "tokWait"
    /\ IF Len(net[p]) < 2
       THEN /\ net' = [net EXCEPT ![p] = Append(@, net[p][Len(net[p])])]
            /\ UNCHANGED <<ret, tokResp, pc>>
       ELSE /\ \E s \in TokenErrStatuses, body \in tokErrBodies :
                 /\ ret' = [ret EXCEPT ![p] = ErrRet("AuthFailed", requestNewKeyErrMsg(s, body))]
                 /\ tokResp' = [tokResp EXCEPT ![p] = [NoResp EXCEPT !.kind = "fail", !.status = s,
                                                                    !.body = body]]
            /\ pc' = [pc EXCEPT ![p] = "idle"]
            /\ UNCHANGED net
    /\ UNCHANGED <<requestKey, refreshKey, requestKeyExpiresAt, now, bind, envVars, clearedAwaiting, issued, op,
                   refreshed, domVars, pureVars>>

\* variant: a rejected token request clears the session
TokenFailClear(p) ==
    /\ pc[p] = "tokWait"
    /\ \E s \in TokenErrStatuses, body \in tokErrBodies :
        /\ ret' = [ret EXCEPT ![p] = ErrRet("AuthFailed", requestNewKeyErrMsg(s, body))]
        /\ tokResp' = [tokResp EXCEPT ![p] = [NoResp EXCEPT !.kind = "fail", !.status = s,
                                                           !.body = body]]
    /\ pc' = [pc EXCEPT ![p] = "idle"]
    /\ requestKey' = [requestKey EXCEPT ![bind[p]] = Null]
    /\ refreshKey' = [refreshKey EXCEPT ![bind[p]] = Null]
    /\ requestKeyExpiresAt' = [requestKeyExpiresAt EXCEPT ![bind[p]] = NullTime]
    /\ UNCHANGED <<now, bind, envVars, clearedAwaiting, issued, op, net, refreshed, domVars, pureVars>>

\* requestNewKey fails and nothing is stored: !response.ok throws the
\* authentication error; a rejected fetch propagates its TypeError; a 200
\* body that is not JSON makes response.json() reject with a SyntaxError
TokenFail(p) ==
    /\ pc[p] = "tokWait"
    /\ \/ \E s \in TokenErrStatuses, body \in tokErrBodies :
          /\ ret' = [ret EXCEPT ![p] = ErrRet("AuthFailed", requestNewKeyErrMsg(s, body))]
          /\ tokResp' = [tokResp EXCEPT ![p] = [NoResp EXCEPT !.kind = "fail", !.status = s,
                                                             !.body = body]]
       \/ /\ "reject" \in fetchFaults
          /\ ret' = [ret EXCEPT ![p] = ErrRet("TypeError", FetchFailedMsg)]
          /\ tokResp' = [tokResp EXCEPT ![p] = [NoResp EXCEPT !.kind = "netErr"]]
       \/ /\ "badJson" \in fetchFaults
          /\ ret' = [ret EXCEPT ![p] = ErrRet("SyntaxError", "Unexpected token")]
          /\ tokResp' = [tokResp EXCEPT ![p] = [NoResp EXCEPT !.kind = "badJson", !.status = 200]]
    /\ pc' = [pc EXCEPT ![p] = "idle"]
    /\ UNCHANGED <<requestKey, refreshKey, requestKeyExpiresAt, now, bind, envVars, clearedAwaiting, issued, op, net,
                   refreshed, domVars, pureVars>>

Verb(p) == IF op[p] = "get" THEN "GET" ELSE "POST"
Endpoint(p) == IF op[p] = "get" THEN GetEndpoint ELSE PostEndpoint

\* variant: the refresh key sent as the Request-Key header
DomainSendRefreshHeader(p) ==
    /\ pc[p] = "resume"
    /\ IF requestKey[bind[p]] = Null
       THEN /\ ret' = [ret EXCEPT ![p] = ErrRet("NotAuthenticated", NotAuthMsg)]
            /\ pc' = [pc EXCEPT ![p] = "idle"]
            /\ UNCHANGED <<net, logs>>
       ELSE LET token == TokStr(requestKey[bind[p]]) IN
            /\ net' = [net EXCEPT ![p] = Append(@,
                  [kind |-> "domain", url |-> Endpoint(p),
                   query |-> IF op[p] = "get" THEN GetQuery(token, args[p]) ELSE PostQuery(token),
                   hdr |-> TokStr(refreshKey[bind[p]]), body |-> IF op[p] = "get" THEN NoArgs ELSE args[p]])]
            /\ logs' = [logs EXCEPT ![p] = Append(@, [msg |-> "Sikka API " \o Verb(p) \o " request",
                                                      endpoint |-> Endpoint(p), status |-> 0])]
            /\ pc' = [pc EXCEPT ![p] = "domWait"]
            /\ UNCHANGED ret
    /\ UNCHANGED <<tokResp, requestKey, refreshKey, requestKeyExpiresAt, now, bind, envVars, clearedAwaiting, issued, op,
                   refreshed, args, domResp, pureVars>>

\* get/post after `await this.ensureAuthenticated()`: getRequestKey(), URL with
\* request_key (and, for GET, the params), log.debug, fetch with the
\* Request-Key header (synchronous up to fetch)
\* variant: the token read is not checked for null
DomainSendNoCheck(p) ==
    /\ pc[p] = "resume"
    /\ LET token == TokStr(requestKey[bind[p]]) IN
            /\ net' = [net EXCEPT ![p] = Append(@,
                  [kind |-> "domain", url |-> Endpoint(p),
                   query |-> IF op[p] = "get" THEN GetQuery(token, args[p]) ELSE PostQuery(token),
                   hdr |-> token, body |-> IF op[p] = "get" THEN NoArgs ELSE args[p]])]
            /\ logs' = [logs EXCEPT ![p] = Append(@, [msg |-> "Sikka API " \o Verb(p) \o " request",
                                                      endpoint |-> Endpoint(p), status |-> 0])]
            /\ pc' = [pc EXCEPT ![p] = "domWait"]
            /\ UNCHANGED ret
    /\ UNCHANGED <<tokResp, requestKey, refreshKey, requestKeyExpiresAt, now, bind, envVars, clearedAwaiting, issued, op,
                   refreshed, args, domResp, pureVars>>

DomainSend(p) ==
    /\ pc[p] = "resume"
    /\ IF requestKey[bind[p]] = Null
       THEN /\ ret' = [ret EXCEPT ![p] = ErrRet("NotAuthenticated", NotAuthMsg)]
            /\ pc' = [pc EXCEPT ![p] = "idle"]
            /\ UNCHANGED <<net, logs>>
       ELSE LET token == TokStr(requestKey[bind[p]]) IN
            /\ net' = [net EXCEPT ![p] = Append(@,
                  [kind |-> "domain", url |-> Endpoint(p),
                   query |-> IF op[p] = "get" THEN GetQuery(token, args[p]) ELSE PostQuery(token),
                   hdr |-> token, body |-> IF op[p] = "get" THEN NoArgs ELSE args[p]])]
            /\ logs' = [logs EXCEPT ![p] = Append(@, [msg |-> "Sikka API " \o Verb(p) \o " request",
                                                      endpoint |-> Endpoint(p), status |-> 0])]
            /\ pc' = [pc EXCEPT ![p] = "domWait"]
            /\ UNCHANGED ret
    /\ UNCHANGED <<tokResp, requestKey, refreshKey, requestKeyExpiresAt, now, bind, envVars, clearedAwaiting, issued, op,
                   refreshed, args, domResp, pureVars>>

\* variant: the body text left out of the message
DomainFailNoBody(p) ==
    /\ pc[p] = "domWait"
    /\ \E t \in DomainErrTexts :
        /\ domResp' = [domResp EXCEPT ![p] = [status |-> 500, text |-> t]]
        /\ ret' = [ret EXCEPT ![p] = ErrRet("ApiFailed",
                      "Sikka API " \o Verb(p) \o " " \o Endpoint(p) \o " failed: "
                      \o ToString(500) \o " " \o "Internal Server Error")]
    /\ pc' = [pc EXCEPT ![p] = "idle"]
    /\ UNCHANGED <<tokResp, requestKey, refreshKey, requestKeyExpiresAt, now, bind, envVars, clearedAwaiting, issued, op,
                   net, refreshed, args, logs, pureVars>>

\* !response.ok: the body text goes into the thrown Error; a rejected fetch
\* propagates its TypeError (no response)
DomainFail(p) ==
    /\ pc[p] = "domWait"
    /\ \/ \E t \in DomainErrTexts :
          /\ domResp' = [domResp EXCEPT ![p] = [status |-> 500, text |-> t]]
          /\ ret' = [ret EXCEPT ![p] = ErrRet("ApiFailed",
                        "Sikka API " \o Verb(p) \o " " \o Endpoint(p) \o " failed: "
                        \o ToString(500) \o " " \o "Internal Server Error" \o " - " \o t)]
       \/ /\ "reject" \in fetchFaults
          /\ domResp' = [domResp EXCEPT ![p] = NoDomResp]
          /\ ret' = [ret EXCEPT ![p] = ErrRet("TypeError", FetchFailedMsg)]
    /\ pc' = [pc EXCEPT ![p] = "idle"]
    /\ UNCHANGED <<tokResp, requestKey, refreshKey, requestKeyExpiresAt, now, bind, envVars, clearedAwaiting, issued, op,
                   net, refreshed, args, logs, pureVars>>

\* response.ok. GET: text(); empty or blank text returns { items: [] } before
\* the response log; otherwise JSON.parse then the log. POST: response.json()
\* then the log. A parse failure is a SyntaxError (no log).
DomainOk(p) ==
    /\ pc[p] = "domWait"
    /\ \E t \in domTextSet :
        /\ domResp' = [domResp EXCEPT ![p] = [status |-> 200, text |-> t]]
        /\ IF op[p] = "get" /\ (t = "" \/ Trim(t) = "")
           THEN /\ ret' = [ret EXCEPT ![p] = [OkRet EXCEPT !.items = 0]]
                /\ UNCHANGED logs
           ELSE IF ParseItems(t) = -1
           THEN /\ ret' = [ret EXCEPT ![p] = ErrRet("SyntaxError", "Unexpected token")]
                /\ UNCHANGED logs
           ELSE /\ ret' = [ret EXCEPT ![p] = [OkRet EXCEPT !.items = ParseItems(t)]]
                /\ logs' = [logs EXCEPT ![p] = Append(@,
                              [msg |-> "Sikka API " \o Verb(p) \o " response",
                               endpoint |-> Endpoint(p), status |-> 200])]
    /\ pc' = [pc EXCEPT ![p] = "idle"]
    /\ UNCHANGED <<tokResp, requestKey, refreshKey, requestKeyExpiresAt, now, bind, envVars, clearedAwaiting, issued, op,
                   net, refreshed, args, pureVars>>

\* variant: the one-hour look-ahead applied to isAuthenticated
IsAuthValueMargin(p) ==
    IF requestKey[bind[p]] = Null \/ ~IsDate(requestKeyExpiresAt[bind[p]]) THEN FALSE
    ELSE ValidTime(requestKeyExpiresAt[bind[p]]) /\ requestKeyExpiresAt[bind[p]] > now + OneHour

\* isAuthenticated()
IsAuthValue(p) ==
    IF requestKey[bind[p]] = Null \/ ~IsDate(requestKeyExpiresAt[bind[p]]) THEN FALSE
    ELSE ValidTime(requestKeyExpiresAt[bind[p]]) /\ requestKeyExpiresAt[bind[p]] > now

isAuthenticated(p) ==
    /\ StartOp(p, "isAuth")
    /\ args' = [args EXCEPT ![p] = NoArgs]
    /\ ret' = [ret EXCEPT ![p] = [NoRet EXCEPT !.tag = "ok", !.b = IsAuthValue(p)]]
    /\ net' = [net EXCEPT ![p] = <<>>]
    /\ refreshed' = [refreshed EXCEPT ![p] = FALSE]
    /\ UNCHANGED <<requestKey, refreshKey, requestKeyExpiresAt, now, bind, envVars, issued, pc>>

\* variant: returns the refresh key
getRequestKeyRefresh(p) ==
    /\ StartOp(p, "getKey")
    /\ args' = [args EXCEPT ![p] = NoArgs]
    /\ ret' = [ret EXCEPT ![p] =
                 IF requestKey[bind[p]] = Null THEN ErrRet("NotAuthenticated", NotAuthMsg)
                 ELSE [NoRet EXCEPT !.tag = "ok", !.key = refreshKey[bind[p]]]]
    /\ net' = [net EXCEPT ![p] = <<>>]
    /\ refreshed' = [refreshed EXCEPT ![p] = FALSE]
    /\ UNCHANGED <<requestKey, refreshKey, requestKeyExpiresAt, now, bind, envVars, issued, pc>>

\* getRequestKey()
getRequestKey(p) ==
    /\ StartOp(p, "getKey")
    /\ args' = [args EXCEPT ![p] = NoArgs]
    /\ ret' = [ret EXCEPT ![p] =
                 IF requestKey[bind[p]] = Null THEN ErrRet("NotAuthenticated", NotAuthMsg)
                 ELSE [NoRet EXCEPT !.tag = "ok", !.key = requestKey[bind[p]]]]
    /\ net' = [net EXCEPT ![p] = <<>>]
    /\ refreshed' = [refreshed EXCEPT ![p] = FALSE]
    /\ UNCHANGED <<requestKey, refreshKey, requestKeyExpiresAt, now, bind, envVars, issued, pc>>

\* wall-clock time passes
Tick ==
    /\ now < MaxTime
    /\ now' = now + 1
    /\ UNCHANGED <<tokResp, requestKey, refreshKey, requestKeyExpiresAt, bind, envVars, clearedAwaiting, issued,
                   pc, op, net, refreshed, ret, domVars, pureVars>>

Next ==
    \/ Tick
    \/ \E p \in Procs :
        \/ authenticate(p)
        \/ refreshAuthentication(p)
        \/ clearAuth(p)
        \/ get(p)
        \/ post(p)
        \/ callEnsureAuthenticated(p)
        \/ TokenOk(p)
        \/ TokenFail(p)
        \/ DomainSend(p)
        \/ DomainOk(p)
        \/ DomainFail(p)
        \/ isAuthenticated(p)
        \/ getRequestKey(p)

Spec == Init /\ [][Next]_vars

\* two SikkaClient instances, each used by its own caller
IsoInit ==
    /\ InitSession
    /\ bind = [p \in Procs |-> IF p = 1 THEN ClientA ELSE ClientB]
    /\ tokErrBodies = SpecErrBodies
    /\ getParamSet = {NoArgs}
    /\ domTextSet = {JsonText}
    /\ fetchFaults = {}
    /\ qIn = NoQIn
    /\ qOut = NoQOut

\* steps of the methods that write the session fields
SessionAction(p) ==
    \/ authenticate(p)
    \/ refreshAuthentication(p)
    \/ clearAuth(p)
    \/ TokenOk(p)
    \/ TokenFail(p)

\* steps of every SikkaClient method
ProcAction(p) ==
    \/ SessionAction(p)
    \/ get(p)
    \/ post(p)
    \/ callEnsureAuthenticated(p)
    \/ DomainSend(p)
    \/ DomainOk(p)
    \/ DomainFail(p)
    \/ isAuthenticated(p)
    \/ getRequestKey(p)

\* caller 1 runs every method on instance A; caller 2 runs the
\* session-writing methods on instance B
IsoNext ==
    \/ Tick
    \/ ProcAction(1)
    \/ SessionAction(2)

IsoSpec == IsoInit /\ [][IsoNext]_vars

\* caller 1 runs every method, caller 2 the session-writing methods, on one
\* instance
SharedNext ==
    \/ Tick
    \/ ProcAction(1)
    \/ SessionAction(2)

\* the event loop runs every pending continuation and every fetch settles
LiveSpec ==
    /\ Init /\ [][SharedNext]_vars
    /\ \A p \in Procs :
        /\ WF_vars(TokenOk(p) \/ TokenFail(p))
        /\ WF_vars(DomainSend(p))
        /\ WF_vars(DomainOk(p) \/ DomainFail(p))

\* the token endpoint answers rejected requests with any of ErrBodies (callers
\* as in SharedNext)
AuthInit ==
    /\ InitSession
    /\ bind = [p \in Procs |-> ClientA]
    /\ tokErrBodies = ErrBodies
    /\ getParamSet = {NoArgs}
    /\ domTextSet = {JsonText}
    /\ fetchFaults = {}
    /\ qIn = NoQIn
    /\ qOut = NoQOut

AuthSpec == AuthInit /\ [][SharedNext]_vars

\* callers pass any of GetParamChoices to get(), and domain endpoints answer
\* HTTP 200 with any of DomainTexts (callers as in SharedNext)
DispatchInit ==
    /\ InitSession
    /\ bind = [p \in Procs |-> ClientA]
    /\ tokErrBodies = SpecErrBodies
    /\ getParamSet = GetParamChoices
    /\ domTextSet = DomainTexts
    /\ fetchFaults = {}
    /\ qIn = NoQIn
    /\ qOut = NoQOut

DispatchSpec == DispatchInit /\ [][SharedNext]_vars

\* fetch() may reject, and the token endpoint may answer HTTP 200 with a body
\* that is not JSON
FaultInit ==
    /\ InitSession
    /\ bind = [p \in Procs |-> ClientA]
    /\ tokErrBodies = SpecErrBodies
    /\ getParamSet = {NoArgs}
    /\ domTextSet = {JsonText}
    /\ fetchFaults = FetchFaults
    /\ qIn = NoQIn
    /\ qOut = NoQOut

FaultSpec == FaultInit /\ [][Next]_vars

\* ---------------------------------------------------------------- query mapping
\* resource list(params): the fields copied into queryParams, in code order
StrF(f) == [f |-> f, t |-> "str"]
NumF(f) == [f |-> f, t |-> "num"]
BoolF(f) == [f |-> f, t |-> "bool"]
PatientsFields ==
    <<StrF("firstname"), StrF("lastname"), StrF("birthdate"), StrF("patient_id"),
      NumF("limit"), NumF("offset")>>
ClaimsFields ==
    <<StrF("patient_id"), StrF("claim_id"), StrF("status"), StrF("start_date"),
      StrF("end_date"), NumF("limit"), NumF("offset")>>
TransactionsFields ==
    <<StrF("claim_sr_no"), StrF("patient_id"), StrF("transaction_type"),
      NumF("limit"), NumF("offset")>>
PaymentTypesFields ==
    <<StrF("code"), StrF("customer_id"), StrF("practice_id"),
      BoolF("is_adjustment_type"), BoolF("is_debit_adjustment_type"),
      BoolF("is_insurance_type"), BoolF("are_credit_card_details_required"),
      NumF("limit"), NumF("offset")>>
FieldsOf(r) ==
    CASE r = "patients" -> PatientsFields
      [] r = "claims" -> ClaimsFields
      [] r = "transactions" -> TransactionsFields
      [] r = "paymentTypes" -> PaymentTypesFields
EndpointOf(r) ==
    CASE r = "patients" -> "/v4/patients"
      [] r = "claims" -> "/v4/claims"
      [] r = "transactions" -> "/v4/transactions"
      [] r = "paymentTypes" -> "/v4/payment_types"

\* variant: `params.x !== undefined` instead of truthiness
IncludeParamSupplied(t, v) == TRUE

\* variant: numbers kept when `>= 0` (offset/limit 0 sent)
IncludeParamNonNeg(t, v) ==
    CASE t = "str" -> v # ""
      [] t = "num" -> v >= 0
      [] t = "bool" -> v

\* `if (params.x)`: JavaScript truthiness of the supplied value
IncludeParam(t, v) ==
    CASE t = "str" -> v # ""
      [] t = "num" -> v # 0
      [] t = "bool" -> v
\* the value stored: the string, String(n), or the literal 'true'
ParamValue(t, v) ==
    CASE t = "str" -> v
      [] t = "num" -> ToString(v)
      [] t = "bool" -> "true"
RECURSIVE BuildQueryParams(_, _)
BuildQueryParams(fields, params) ==
    IF fields = <<>> THEN <<>>
    ELSE LET fd == Head(fields)
             rest == BuildQueryParams(Tail(fields), params)
         IN IF fd.f \in DOMAIN params /\ IncludeParam(fd.t, params[fd.f])
            THEN <<<<fd.f, ParamValue(fd.t, params[fd.f])>>>> \o rest
            ELSE rest

\* list accessors return response.items
Envelope == [items |-> <<"item-1", "item-2">>, total_count |-> "2", limit |-> "100", offset |-> "0"]
ListResult(env) == env.items

\* inputs: supplied params (any subset of the fields) with falsy and truthy values
ValuesOf(t) == CASE t = "str" -> {"", "John"} [] t = "num" -> {0, 10} [] t = "bool" -> {FALSE, TRUE}
RECURSIVE ParamSets(_)
ParamSets(fs) ==
    IF fs = <<>> THEN {[n \in {} |-> 0]}
    ELSE LET fd == Head(fs) IN
         UNION {{g} \cup {(fd.f :> v) @@ g : v \in ValuesOf(fd.t)} : g \in ParamSets(Tail(fs))}
TypedParams(r) == ParamSets(FieldsOf(r))
QueryToken == TokStr(1)
GetParamKeys == {"request_key", "firstname", "limit"}
GetParamSeqs ==
    UNION {{sq \in [1..n -> GetParamKeys \X {"v1", "v2"}] :
              \A i, j \in 1..n : i # j => sq[i][1] # sq[j][1]} : n \in 0..3}
ListResources == {"patients", "claims", "transactions", "paymentTypes"}
ListInputs(rs) ==
    UNION {{[kind |-> "list", res |-> r, params |-> prm] : prm \in TypedParams(r)} : r \in rs}
GetInputs == {[kind |-> "get", params |-> sq] : sq \in GetParamSeqs}

\* transactions.listProcedures(claimSrNo): list({claim_sr_no}) then filter
ClaimIds == {"123", ""}
TxnTypes == {"Procedure", "Payment"}
MaxTxns == 3
\* the transactions the server returns (id = position in response.items)
TxnLists ==
    UNION {{[i \in 1..n |-> [id |-> i, transaction_type |-> tt[i]]] : tt \in [1..n -> TxnTypes]}
           : n \in 0..MaxTxns}
ProcInputs == {[kind |-> "procs", claim |-> c, items |-> tx] : c \in ClaimIds, tx \in TxnLists}
IsProcedure(txn) == txn.transaction_type = "Procedure"
\* variant: the transactions returned unfiltered
ListProceduresAll(items) == items
\* transactions.filter((txn) => txn.transaction_type === 'Procedure')
ListProcedures(items) == SelectSeq(items, IsProcedure)

\* list(params) -> get(endpoint, queryParams) -> URL query; listProcedures(claimSrNo) ->
\* list({claim_sr_no}) -> filtered items; get(endpoint, params) -> URL query
EvalQuery ==
    /\ ~qOut.done
    /\ qOut' = IF qIn.kind = "list"
               THEN [done |-> TRUE,
                     query |-> GetQuery(QueryToken, BuildQueryParams(FieldsOf(qIn.res), qIn.params)),
                     hdr |-> QueryToken,
                     result |-> ListResult(Envelope)]
               ELSE IF qIn.kind = "procs"
               THEN [done |-> TRUE,
                     query |-> GetQuery(QueryToken,
                                  BuildQueryParams(TransactionsFields, [claim_sr_no |-> qIn.claim])),
                     hdr |-> QueryToken,
                     result |-> ListProcedures(qIn.items)]
               ELSE [done |-> TRUE, query |-> GetQuery(QueryToken, qIn.params),
                     hdr |-> QueryToken, result |-> <<>>]
    /\ UNCHANGED <<qIn, requestKey, refreshKey, requestKeyExpiresAt, now, bind, envVars, clearedAwaiting, issued,
                   pc, op, net, refreshed, ret, tokResp, domVars>>

QueryInit ==
    /\ InitSession
    /\ bind = [p \in Procs |-> ClientA]
    /\ tokErrBodies = SpecErrBodies
    /\ getParamSet = {NoArgs}
    /\ domTextSet = {JsonText}
    /\ fetchFaults = {}
    /\ qIn \in ListInputs(ListResources) \cup GetInputs \cup ProcInputs
    /\ qOut = NoQOut

QuerySpec == QueryInit /\ [][EvalQuery]_vars

\* ================================================================ properties

Present == requestKey[ClientA] # Null /\ refreshKey[ClientA] # Null /\ IsDate(requestKeyExpiresAt[ClientA])
Absent == requestKey[ClientA] = Null /\ refreshKey[ClientA] = Null /\ requestKeyExpiresAt[ClientA] = NullTime
IsGetPost(p) == op[p] \in {"get", "post"}
DomainIdx(p) == {i \in 1..Len(net[p]) : net[p][i].kind = "domain"}
TokenIdx(p) == {i \in 1..Len(net[p]) : net[p][i].kind = "token"}

\* C1: token is present iff expiresAt is present in every state; a successful
\* token-endpoint answer leaves all three fields present; clearAuth leaves all
\* three absent.
C1_SessionTriple ==
    /\ [](requestKey[ClientA] # Null <=> IsDate(requestKeyExpiresAt[ClientA]))
    /\ [][\A p \in Procs :
            /\ (pc[p] = "tokWait" /\ tokResp'[p].kind = "ok") => Present'
            /\ clearAuth(p) => Absent']_vars

C1_Witness == issued >= 1 /\ \E p \in Procs : op[p] = "clear" /\ Absent

\* C2: the error message of a failed authenticate() follows the claimed
\* precedence error_description, error, message, then "<status> <reason>".
ClaimedDetail(s, b) ==
    LET cands == SelectSeq(<<[n |-> "error_description", v |-> b.ed],
                             [n |-> "error", v |-> b.er],
                             [n |-> "message", v |-> b.me]>>,
                           LAMBDA c : c.v \notin {"absent", "null"})
    IN IF b.kind = "obj" /\ Len(cands) > 0 THEN FieldStr(cands[1].n, cands[1].v)
       ELSE StatusLine(s)

\* C2: a rejected authenticate() fails with "Sikka authentication failed: "
\* followed by the claimed detail, after exactly one token request, and does
\* not change whether the client is authenticated.
C2_AuthErrorMessage ==
    /\ [](\A p \in Procs :
            (op[p] = "auth" /\ tokResp[p].kind = "fail") =>
              /\ ret[p] = ErrRet("AuthFailed", "Sikka authentication failed: "
                                   \o ClaimedDetail(tokResp[p].status, tokResp[p].body))
              /\ net[p] = <<TokenReq("request_key", Null)>>
              /\ pc[p] = "idle")
    /\ [][\A p \in Procs :
            (pc[p] = "tokWait" /\ op[p] = "auth" /\ tokResp'[p].kind = "fail")
              => IsAuthValue(p)' = IsAuthValue(p)]_vars

C2_Witness ==
    \E p \in Procs : op[p] = "auth" /\ tokResp[p].kind = "fail"
                     /\ tokResp[p].body = Body("obj", "empty", "s", "absent")
                     /\ ~IsAuthValue(p)

\* C3: refreshAuthentication() without a refresh key fails with the
\* "No refresh key available" error and sends nothing.
C3_RefreshNeedsKey ==
    [][\A p \in Procs :
         (refreshAuthentication(p) /\ refreshKey[ClientA] = Null) =>
           /\ ret'[p] = ErrRet("NoRefreshKey", NoRefreshMsg)
           /\ net'[p] = <<>>
           /\ pc'[p] = "idle"]_vars

C3_Witness == \E p \in Procs : op[p] = "refresh" /\ ret[p].cat = "NoRefreshKey"

\* C4: a get/post on an authenticated client refreshes exactly once, before
\* the domain request, iff expiresAt < now + 1 hour; otherwise it sends no
\* token request.
NearExpiry == ValidTime(requestKeyExpiresAt[ClientA]) /\ requestKeyExpiresAt[ClientA] < now + OneHour

C4_LazyRefresh ==
    /\ [][\A p \in Procs :
            ((get(p) \/ post(p)) /\ requestKey[ClientA] # Null) =>
              IF NearExpiry
              THEN /\ refreshed'[p]
                   /\ net'[p] = <<TokenReq("refresh_key", refreshKey[ClientA])>>
                   /\ pc'[p] = "tokWait"
              ELSE /\ ~refreshed'[p]
                   /\ net'[p] = <<>>
                   /\ pc'[p] = "resume"]_vars
    /\ [](\A p \in Procs : IsGetPost(p) =>
            /\ Cardinality(TokenIdx(p)) <= 1
            /\ TokenIdx(p) # {} => (TokenIdx(p) = {1} /\ refreshed[p])
            /\ (refreshed[p] /\ DomainIdx(p) # {}) =>
                 (DomainIdx(p) = {2} /\ tokResp[p].kind = "ok"))

C4_Witness == \E p \in Procs : op[p] = "get" /\ refreshed[p] /\ Len(net[p]) = 2

\* the refresh of get/post p failed: the token endpoint rejected it, its fetch
\* rejected, its 200 body was not JSON, or its end_time did not parse
RefreshFailed(p) ==
    /\ IsGetPost(p) /\ refreshed[p]
    /\ \/ tokResp[p].kind \in {"fail", "netErr", "badJson"}
       \/ tokResp[p].kind = "ok" /\ ParseDate(tokResp[p].end) = InvalidDate
\* what the failed refresh throws out of the domain call
RefreshErrCat(p) ==
    CASE tokResp[p].kind = "fail" -> "AuthFailed"
      [] tokResp[p].kind = "netErr" -> "TypeError"
      [] tokResp[p].kind = "badJson" -> "SyntaxError"
      [] OTHER -> "RangeError"

\* C5 (as stated): a failed refresh inside get/post ends the call with the
\* authentication error, and no domain request is sent.
C5_RefreshFailurePropagates ==
    \A p \in Procs :
        RefreshFailed(p) =>
            /\ ret[p].tag = "err" /\ ret[p].cat = "AuthFailed"
            /\ pc[p] = "idle"
            /\ DomainIdx(p) = {}

\* C5 (amended): a failed refresh inside get/post ends the call with what the
\* refresh threw, and no domain request is sent; it is the authentication error
\* only when the token endpoint answered with a non-success status.
C5_RefreshFailurePropagatesAmended ==
    \A p \in Procs :
        RefreshFailed(p) =>
            /\ ret[p].tag = "err" /\ ret[p].cat = RefreshErrCat(p)
            /\ pc[p] = "idle"
            /\ DomainIdx(p) = {}

\* a post whose refresh got a 200 reply with an end_time that does not parse
C5_Witness ==
    \E p \in Procs : op[p] = "post" /\ RefreshFailed(p) /\ tokResp[p].kind = "ok"

\* C6: isAuthenticated() is true iff a token is held and expiresAt is strictly
\* after now, with no look-ahead margin.
C6_IsAuthenticated ==
    [][\A p \in Procs :
         isAuthenticated(p) =>
           ret'[p].b = (requestKey[ClientA] # Null /\ requestKeyExpiresAt[ClientA] >= 0
                        /\ requestKeyExpiresAt[ClientA] > now)]_vars

C6_Witness ==
    \E p \in Procs : op[p] = "isAuth" /\ ret[p].b /\ requestKeyExpiresAt[ClientA] < now + OneHour

\* C7: get/post without a token fails with "Not authenticated" and sends no
\* request at all.
C7_NoTokenNoRequest ==
    [][\A p \in Procs :
         ((get(p) \/ post(p)) /\ requestKey[ClientA] = Null) =>
           /\ ret'[p] = ErrRet("NotAuthenticated", NotAuthMsg)
           /\ net'[p] = <<>>
           /\ pc'[p] = "idle"]_vars

C7_Witness ==
    \E p \in Procs : op[p] = "post" /\ ret[p].cat = "NotAuthenticated" /\ net[p] = <<>>

\* C8 (as stated): the held token is that of the latest successful
\* authenticate/refresh (one whose end_time parsed), and getRequestKey()
\* returns it, or raises "Not authenticated" when none is held.
C8_GetRequestKeySuccessful ==
    [][\A p \in Procs :
         getRequestKey(p) =>
           IF requestKey[ClientA] = Null THEN ret'[p] = ErrRet("NotAuthenticated", NotAuthMsg)
           ELSE /\ ret'[p].tag = "ok" /\ ret'[p].key = requestKey[ClientA]
                /\ requestKeyExpiresAt[ClientA] # InvalidDate]_vars

\* C8 (amended): the held token is that of the latest token response stored,
\* a successful one or one whose end_time did not parse (stored before the
\* RangeError), and getRequestKey() returns it, or raises "Not authenticated"
\* when none is held.
C8_GetRequestKey ==
    /\ [](requestKey[ClientA] \in {Null, issued})
    /\ [][\A p \in Procs :
            getRequestKey(p) =>
              IF requestKey[ClientA] = Null THEN ret'[p] = ErrRet("NotAuthenticated", NotAuthMsg)
              ELSE ret'[p].tag = "ok" /\ ret'[p].key = issued]_vars

\* getRequestKey() returned the token of an authenticate/refresh that failed
\* with RangeError
C8_Witness ==
    \E p \in Procs : op[p] = "getKey" /\ ret[p].key = 2 /\ issued = 2
                     /\ requestKeyExpiresAt[ClientA] = InvalidDate

\* C9: clearAuth() sends nothing, empties the triple from any state, and a
\* second clearAuth() changes nothing.
C9_ClearAuth ==
    [][\A p \in Procs :
         clearAuth(p) =>
           /\ net'[p] = <<>>
           /\ Absent'
           /\ UNCHANGED <<now, issued>>
           /\ \A o \in Procs \ {p} : /\ pc'[o] = pc[o] /\ net'[o] = net[o]
                                     /\ ret'[o] = ret[o]
           /\ (op[p] = "clear" /\ Absent /\ ret[p] = OkRet /\ net[p] = <<>>
               /\ tokResp[p] = NoResp /\ ~refreshed[p]) => UNCHANGED vars]_vars

C9_Witness == issued >= 1 /\ \E p \in Procs : op[p] = "clear" /\ Absent

QueryKeys(q) == {q[i][1] : i \in 1..Len(q)}
QueryVal(q, k) ==
    IF k \in QueryKeys(q) THEN q[CHOOSE i \in 1..Len(q) : q[i][1] = k][2] ELSE ""
TokensFrom(n) == {TokStr(m) : m \in n..MaxIssue}

\* C10 (as stated): every domain request carries the session token both as
\* the request_key query parameter and as the Request-Key header; after a
\* refresh it is the refreshed token (or a newer one).
C10_TokenTransport ==
    \A p \in Procs : \A i \in DomainIdx(p) :
        /\ QueryVal(net[p][i].query, "request_key") = net[p][i].hdr
        /\ net[p][i].hdr # ""
        /\ refreshed[p] => net[p][i].hdr \in TokensFrom(tokResp[p].key)

\* C10 (amended): the Request-Key header always carries the session token read
\* when get/post resume after ensureAuthenticated (after a refresh: that token
\* or a newer one); request_key in the query equals it unless the caller's GET
\* params carry their own request_key.
C10_TokenTransportAmended ==
    /\ [](\A p \in Procs : \A i \in DomainIdx(p) :
            /\ net[p][i].hdr # ""
            /\ "request_key" \notin {args[p][j][1] : j \in 1..Len(args[p])} =>
                 QueryVal(net[p][i].query, "request_key") = net[p][i].hdr
            /\ refreshed[p] => net[p][i].hdr \in TokensFrom(tokResp[p].key))
    /\ [][\A p \in Procs :
            (pc[p] = "resume" /\ pc'[p] = "domWait") =>
              net'[p][Len(net'[p])].hdr = TokStr(requestKey[ClientA])]_vars

C10_Witness == \E p \in Procs : op[p] = "get" /\ refreshed[p] /\ DomainIdx(p) = {2}

\* C12: a failed domain response ends get/post with the ApiRequestError
\* message naming verb, endpoint, status, reason phrase and body text, and the
\* session is not touched.
C12_ApiErrorMessage ==
    /\ [](\A p \in Procs :
            (IsGetPost(p) /\ domResp[p].status = 500) =>
              ret[p] = ErrRet("ApiFailed",
                         "Sikka API " \o (IF op[p] = "get" THEN "GET /v4/patients"
                                          ELSE "POST /v4/claim_payment")
                         \o " failed: 500 Internal Server Error - " \o domResp[p].text))
    /\ [][\A p \in Procs :
            (pc[p] = "domWait" /\ pc'[p] = "idle") =>
              UNCHANGED <<requestKey[ClientA], refreshKey[ClientA], requestKeyExpiresAt[ClientA]>>]_vars

C12_Witness == \E p \in Procs : op[p] = "post" /\ domResp[p].status = 500

Completed(p) == pc[p] = "idle" /\ ret[p].tag # "none"

\* C13 (as stated): every completed authenticate()/refreshAuthentication()
\* sent exactly one token request; a get/post sent at most one token request
\* and at most one domain request.
C13_NoRetry ==
    \A p \in Procs :
        /\ (op[p] \in {"auth", "refresh"} /\ Completed(p)) =>
             Cardinality(TokenIdx(p)) = 1 /\ DomainIdx(p) = {}
        /\ IsGetPost(p) => Cardinality(TokenIdx(p)) <= 1 /\ Cardinality(DomainIdx(p)) <= 1

\* C13 (amended): authenticate() sends exactly one token request;
\* refreshAuthentication() sends one when a refresh key is held and none when
\* it fails for lack of one; a get/post sends at most one token request and
\* at most one domain request; no call ever sends more.
C13_NoRetryAmended ==
    \A p \in Procs :
        /\ Len(net[p]) <= 2
        /\ (op[p] = "auth" /\ pc[p] # "idle") => Cardinality(TokenIdx(p)) = 1
        /\ (op[p] = "auth" /\ Completed(p)) => Cardinality(TokenIdx(p)) = 1 /\ DomainIdx(p) = {}
        /\ (op[p] = "refresh" /\ Completed(p)) =>
             /\ DomainIdx(p) = {}
             /\ Cardinality(TokenIdx(p)) = (IF ret[p].cat = "NoRefreshKey" THEN 0 ELSE 1)
        /\ IsGetPost(p) => Cardinality(TokenIdx(p)) <= 1 /\ Cardinality(DomainIdx(p)) <= 1

C13_Witness ==
    \E p \in Procs : op[p] = "refresh" /\ Completed(p) /\ ret[p].cat = "AuthFailed"

\* C14: a 200 GET with an empty or blank body returns { items: [] }; a 200
\* POST with an empty body fails with a parse error.
C14_EmptyBody ==
    \A p \in Procs :
        /\ (op[p] = "get" /\ domResp[p].status = 200 /\ domResp[p].text \in {"", Whitespace})
             => ret[p] = [OkRet EXCEPT !.items = 0]
        /\ (op[p] = "post" /\ domResp[p].status = 200 /\ domResp[p].text = "")
             => ret[p].tag = "err" /\ ret[p].cat = "SyntaxError"

C14_Witness ==
    /\ \E p \in Procs : op[p] = "get" /\ domResp[p].status = 200 /\ domResp[p].text = Whitespace

\* C15: every get/post that received a success response logged the request
\* (before sending) and the response (endpoint, status), empty GET bodies
\* included.
C15_DebugLogs ==
    \A p \in Procs :
        (IsGetPost(p) /\ domResp[p].status = 200) =>
            logs[p] = <<[msg |-> "Sikka API " \o Verb(p) \o " request",
                         endpoint |-> Endpoint(p), status |-> 0],
                        [msg |-> "Sikka API " \o Verb(p) \o " response",
                         endpoint |-> Endpoint(p), status |-> 200]>>

\* C16: token requests go to /v4/request_key without a Request-Key header;
\* authenticate sends app id, app key, grant_type request_key, office id and
\* secret; a refresh sends app id, app key, grant_type refresh_key and the
\* refresh key held when it was sent, and no office secrets.
C16_KeyRequestBodies ==
    /\ [](\A p \in Procs : \A i \in TokenIdx(p) :
            LET rq == net[p][i] IN
            /\ rq.url = "/v4/request_key" /\ rq.hdr = "" /\ rq.query = <<>>
            /\ IF op[p] = "auth"
               THEN rq.body = [app_id |-> AppId, app_key |-> AppKey, grant_type |-> "request_key",
                               office_id |-> OfficeId, secret_key |-> SecretKey]
               ELSE /\ DOMAIN rq.body = {"app_id", "app_key", "grant_type", "refresh_key"}
                    /\ rq.body.app_id = AppId /\ rq.body.app_key = AppKey
                    /\ rq.body.grant_type = "refresh_key")
    /\ [][\A p \in Procs :
            (TokenIdx(p) = {} /\ TokenIdx(p)' # {} /\ op'[p] # "auth") =>
              net'[p][1].body.refresh_key = refreshKey[ClientA]]_vars

C16_Witness == \E p \in Procs : op[p] = "get" /\ TokenIdx(p) = {1} /\ Len(net[p]) = 2

\* C17: a successful token response replaces the whole triple with its
\* request_key, refresh_key and new Date(end_time), whatever expires_in says.
C17_FullReplace ==
    [][\A p \in Procs :
         (pc[p] = "tokWait" /\ tokResp'[p].kind = "ok") =>
           /\ requestKey'[ClientA] = tokResp'[p].key
           /\ refreshKey'[ClientA] = tokResp'[p].rkey
           /\ requestKeyExpiresAt'[ClientA] = ParseDate(tokResp'[p].end)]_vars

C17_Witness ==
    /\ issued = 2
    /\ \E p \in Procs : op[p] = "refresh" /\ ret[p] = OkRet /\ requestKey[ClientA] = tokResp[p].key

\* ---------------------------------------------------------------- C11..C20

GetKeys(prm) == {prm[i][1] : i \in 1..Len(prm)}
GetVal(prm, k) == prm[CHOOSE i \in 1..Len(prm) : prm[i][1] = k][2]

\* C11: in get(), each caller param ends up in the query with its own value,
\* once, overriding request_key if supplied; request_key is the token
\* otherwise; the Request-Key header is always the token.
C11_GetMergesParams ==
    (qOut.done /\ qIn.kind = "get") =>
        LET out == qOut.query
            prm == qIn.params
        IN /\ Len(out) = Cardinality(QueryKeys(out))
           /\ QueryKeys(out) = GetKeys(prm) \cup {"request_key"}
           /\ \A k \in GetKeys(prm) : QueryVal(out, k) = GetVal(prm, k)
           /\ "request_key" \notin GetKeys(prm) => QueryVal(out, "request_key") = QueryToken
           /\ qOut.hdr = QueryToken

C11_Witness ==
    qOut.done /\ qIn.kind = "get" /\ Len(qIn.params) = 3
    /\ "request_key" \in GetKeys(qIn.params) /\ qOut.hdr # QueryVal(qOut.query, "request_key")

FieldType(r, n) == LET fs == FieldsOf(r) IN fs[CHOOSE i \in 1..Len(fs) : fs[i].f = n].t
Falsy(t, v) == (t = "str" /\ v = "") \/ (t = "num" /\ v = 0) \/ (t = "bool" /\ v = FALSE)

\* C19: list(params) sends request_key plus exactly the supplied non-falsy
\* params, boolean flags only as 'true' and never 'false', and returns the
\* envelope's items.
C19_ListQuery ==
    (qOut.done /\ qIn.kind = "list") =>
        LET out == qOut.query
            prm == qIn.params
        IN /\ Len(out) = Cardinality(QueryKeys(out))
           /\ QueryKeys(out) =
                {"request_key"} \cup {n \in DOMAIN prm : ~Falsy(FieldType(qIn.res, n), prm[n])}
           /\ QueryVal(out, "request_key") = QueryToken
           /\ \A n \in DOMAIN prm :
                (FieldType(qIn.res, n) = "bool" /\ n \in QueryKeys(out)) => QueryVal(out, n) = "true"
           /\ \A i \in 1..Len(out) : out[i][2] # "false"
           /\ qOut.result = Envelope.items

C19_Witness ==
    /\ qOut.done /\ qIn.kind = "list" /\ qIn.res = "paymentTypes"
    /\ {"code", "is_adjustment_type", "is_insurance_type"} \subseteq DOMAIN qIn.params
    /\ qIn.params["code"] = "" /\ qIn.params["is_adjustment_type"] = FALSE
    /\ qIn.params["is_insurance_type"] = TRUE

NumKeys(prm) == {"limit", "offset"} \cap DOMAIN prm

\* C20 (as stated): every supplied limit/offset, 0 included, is sent as String(n).
C20_NumericParams ==
    (qOut.done /\ qIn.kind = "list") =>
        \A n \in NumKeys(qIn.params) :
            n \in QueryKeys(qOut.query) /\ QueryVal(qOut.query, n) = ToString(qIn.params[n])

\* C20 (amended): a supplied non-zero limit/offset is sent as String(n); a
\* supplied 0 is falsy and omitted from the query.
C20_NumericParamsAmended ==
    (qOut.done /\ qIn.kind = "list") =>
        \A n \in NumKeys(qIn.params) :
            IF qIn.params[n] # 0
            THEN n \in QueryKeys(qOut.query) /\ QueryVal(qOut.query, n) = ToString(qIn.params[n])
            ELSE n \notin QueryKeys(qOut.query)

C20_Witness ==
    /\ qOut.done /\ qIn.kind = "list" /\ NumKeys(qIn.params) = {"limit", "offset"}
    /\ qIn.params["offset"] = 0 /\ qIn.params["limit"] = 10

\* C18: any step of a method called on one SikkaClient instance (authenticate,
\* refreshAuthentication, clearAuth, get, post and their continuations) leaves
\* the session fields of every other instance unchanged.
C18_InstanceIsolation ==
    [][\A p \in Procs :
         ProcAction(p) =>
           \A c \in Clients \ {bind[p]} :
               /\ requestKey'[c] = requestKey[c]
               /\ refreshKey'[c] = refreshKey[c]
               /\ requestKeyExpiresAt'[c] = requestKeyExpiresAt[c]]_vars

C18_Witness ==
    \E p, q \in Procs :
        /\ bind[p] # bind[q]
        /\ op[p] = "clear" /\ ret[p] = OkRet
        /\ requestKey[bind[q]] # Null /\ refreshKey[bind[q]] # Null

\* C21 (as stated): listProcedures(claimId) sends one transactions list query
\* with claim_sr_no = claimId and returns exactly the 'Procedure' entries of
\* the response, in their original order.
ProcIds == {i \in 1..Len(qIn.items) : qIn.items[i].transaction_type = "Procedure"}
C21_ListProceduresResult ==
    /\ Len(qOut.result) = Cardinality(ProcIds)
    /\ \A k \in 1..Len(qOut.result) :
          /\ qOut.result[k] = qIn.items[qOut.result[k].id]
          /\ qOut.result[k].id \in ProcIds
    /\ \A k \in 1..Len(qOut.result) - 1 : qOut.result[k].id < qOut.result[k + 1].id
C21_ListProcedures ==
    (qOut.done /\ qIn.kind = "procs") =>
        /\ QueryKeys(qOut.query) = {"request_key", "claim_sr_no"}
        /\ QueryVal(qOut.query, "claim_sr_no") = qIn.claim
        /\ C21_ListProceduresResult

\* C21 (amended): as stated for a non-empty claimId; an empty claimId is falsy,
\* so the list query carries no claim_sr_no filter at all.
C21_ListProceduresAmended ==
    (qOut.done /\ qIn.kind = "procs") =>
        /\ IF qIn.claim # ""
           THEN /\ QueryKeys(qOut.query) = {"request_key", "claim_sr_no"}
                /\ QueryVal(qOut.query, "claim_sr_no") = qIn.claim
           ELSE QueryKeys(qOut.query) = {"request_key"}
        /\ C21_ListProceduresResult

C21_Witness ==
    /\ qOut.done /\ qIn.kind = "procs" /\ qIn.claim = "123"
    /\ Len(qIn.items) = 3
    /\ qIn.items[1].transaction_type = "Procedure"
    /\ qIn.items[2].transaction_type = "Payment"
    /\ qIn.items[3].transaction_type = "Procedure"

\* failure classes of the taxonomy
SpecKind(c) ==
    CASE c = "NotAuthenticated" -> "NotAuthenticatedError"
      [] c \in {"NoRefreshKey", "AuthFailed"} -> "AuthenticationError"
      [] c = "ApiFailed" -> "ApiRequestError"
      [] OTHER -> "other"
Classified(p) == ret[p].tag = "err" /\ SpecKind(ret[p].cat) # "other"
\* C22 (as stated): failures of different classes, whichever call raised them,
\* are thrown with different error kinds (error.name).
C22_ErrorKinds ==
    \A p, q \in Procs :
        (Classified(p) /\ Classified(q) /\ SpecKind(ret[p].cat) # SpecKind(ret[q].cat))
            => ErrorName(ret[p].cat) # ErrorName(ret[q].cat)

\* C23: a get/post that finds the token near expiry starts its own refresh
\* (one refresh_key request) even while another caller's refresh on the same
\* instance is in flight; two refreshes can be awaited at once.
C23_ConcurrentRefresh ==
    [][\A p \in Procs :
         (/\ pc[p] = "idle" /\ pc'[p] # "idle" /\ op'[p] \in {"get", "post"}
          /\ requestKey[ClientA] # Null /\ NearExpiry /\ refreshKey[ClientA] # Null
          /\ \E q \in Procs \ {p} : pc[q] = "tokWait" /\ refreshed[q])
           => /\ pc'[p] = "tokWait" /\ refreshed'[p]
              /\ net'[p] = <<TokenReq("refresh_key", refreshKey[ClientA])>>]_vars

C23_Witness ==
    \E p, q \in Procs :
        /\ p # q /\ IsGetPost(p) /\ IsGetPost(q)
        /\ pc[p] = "tokWait" /\ refreshed[p]
        /\ pc[q] = "tokWait" /\ refreshed[q]

\* C24: a failed authenticate()/refreshAuthentication() (the token endpoint
\* rejects the request, or no refresh key is held) leaves the session triple
\* unchanged, so a session that was valid stays valid.
C24_FailureKeepsSession ==
    [][\A p \in Procs :
         (\/ pc[p] = "tokWait" /\ tokResp'[p].kind = "fail"
          \/ refreshAuthentication(p) /\ refreshKey[ClientA] = Null)
           => /\ requestKey'[ClientA] = requestKey[ClientA]
              /\ refreshKey'[ClientA] = refreshKey[ClientA]
              /\ requestKeyExpiresAt'[ClientA] = requestKeyExpiresAt[ClientA]
              /\ IsAuthValue(p)' = IsAuthValue(p)]_vars

C24_Witness ==
    \E p \in Procs :
        /\ op[p] \in {"auth", "refresh"} /\ tokResp[p].kind = "fail"
        /\ ret[p].cat = "AuthFailed" /\ IsAuthValue(p)

\* C25: a successful token response stores the new session whatever the
\* session is when it arrives, a cleared one included, so the client is
\* authenticated again after a clearAuth() that ran while it was awaited.
C25_ClearNotDurable ==
    [][\A p \in Procs :
         (pc[p] = "tokWait" /\ tokResp'[p].kind = "ok")
           => /\ requestKey'[ClientA] = tokResp'[p].key
              /\ refreshKey'[ClientA] = tokResp'[p].rkey
              /\ requestKeyExpiresAt'[ClientA] = ParseDate(tokResp'[p].end)
              /\ (ParseDate(tokResp'[p].end) # InvalidDate => IsAuthValue(p)')]_vars

\* a refresh is in flight (it started with a refresh key held) and the other
\* caller's clearAuth() has since emptied the session; the response may succeed
C25_Witness ==
    \E p, q \in Procs :
        /\ p # q /\ op[p] = "refresh" /\ pc[p] = "tokWait"
        /\ op[q] = "clear" /\ Absent /\ issued < MaxIssue

NoDomainReq(p) == \A i \in 1..Len(net'[p]) : net'[p][i].kind # "domain"
\* get/post resuming after ensureAuthenticated reads the token now: with the
\* session cleared it throws 'Not authenticated' and sends nothing, otherwise it
\* sends the request with the current token.
C26_ReadAtResume ==
    [][\A p \in Procs :
         (IsGetPost(p) /\ pc[p] = "resume" /\ pc'[p] # "resume")
           => IF requestKey[ClientA] = Null
              THEN /\ ret'[p] = ErrRet("NotAuthenticated", NotAuthMsg) /\ pc'[p] = "idle"
                   /\ NoDomainReq(p)
              ELSE /\ Len(net'[p]) = Len(net[p]) + 1
                   /\ net'[p][Len(net'[p])].kind = "domain"
                   /\ net'[p][Len(net'[p])].hdr = TokStr(requestKey[ClientA])]_vars
\* no domain request ever carries an absent token
C26_NoAbsentToken ==
    \A p \in Procs : \A i \in 1..Len(net[p]) :
        net[p][i].kind = "domain" => net[p][i].hdr \in {TokStr(k) : k \in 1..MaxIssue}
\* a get/post whose refresh is awaited when the session is cleared
ClearedDuringRefresh(p) ==
    IsGetPost(p) /\ pc[p] = "tokWait" /\ refreshed[p] /\ Absent
    /\ tokResp[p].kind = "none" /\ tokResp'[p].kind # "none"

\* C26 (as stated): a get/post whose instance was cleared after
\* ensureAuthenticated's check, e.g. while its refresh was awaited, fails with
\* 'Not authenticated' and sends no domain request; no interleaving sends a
\* request with an absent token.
C26_ClearAfterCheck ==
    /\ C26_ReadAtResume
    /\ []C26_NoAbsentToken
    /\ [](\A p \in Procs :
            (IsGetPost(p) /\ refreshed[p] /\ clearedAwaiting[p]) => DomainIdx(p) = {})

\* C26 (amended): a clearAuth() after ensureAuthenticated has completed and
\* before the token is read makes the call fail with 'Not authenticated' and
\* send no domain request; a clearAuth() while the refresh is awaited is undone
\* by a successful refresh response and the call goes on with the new token;
\* no interleaving sends a request with an absent token.
C26_ClearAfterCheckAmended ==
    /\ C26_ReadAtResume
    /\ []C26_NoAbsentToken
    /\ [][\A p \in Procs :
            (ClearedDuringRefresh(p) /\ tokResp'[p].kind = "ok"
                /\ ParseDate(tokResp'[p].end) # InvalidDate)
              => /\ pc'[p] = "resume" /\ requestKey'[ClientA] = tokResp'[p].key]_vars

\* the refresh of a get completed, then the other caller cleared the session,
\* and the get failed reading the token
C26_Witness ==
    \E p, q \in Procs :
        /\ p # q /\ op[p] = "get" /\ refreshed[p] /\ tokResp[p].kind = "ok"
        /\ pc[p] = "idle" /\ ret[p].cat = "NotAuthenticated" /\ op[q] = "clear"

Expired == ValidTime(requestKeyExpiresAt[ClientA]) /\ requestKeyExpiresAt[ClientA] < now
\* C27: a get/post that finds the token already expired, with a refresh key
\* held, is not rejected but sends one refresh request; once that refresh
\* succeeds, any domain request of the call carries the refreshed token or a
\* later one, never the token that was found near expiry.
C27_ExpiredRefreshes ==
    /\ [][\A p \in Procs :
            ((get(p) \/ post(p)) /\ requestKey[ClientA] # Null /\ Expired
                /\ refreshKey[ClientA] # Null)
              => /\ pc'[p] = "tokWait" /\ refreshed'[p]
                 /\ net'[p] = <<TokenReq("refresh_key", refreshKey[ClientA])>>]_vars
    /\ [](\A p \in Procs :
            (IsGetPost(p) /\ refreshed[p] /\ tokResp[p].kind = "ok")
              => \A i \in 1..Len(net[p]) :
                    net[p][i].kind = "domain" => net[p][i].hdr \in TokensFrom(tokResp[p].key))

\* a get found the token already past its expiresAt and sent a refresh
C27_Witness ==
    \E p \in Procs :
        /\ op[p] = "get" /\ refreshed[p] /\ pc[p] = "tokWait"
        /\ requestKey[ClientA] # Null /\ Expired
        /\ net[p] = <<TokenReq("refresh_key", refreshKey[ClientA])>>

\* C28: a get/post sends at most one token request (one refresh per
\* ensureAuthenticated call); a refreshed token whose end_time is itself within
\* the hour is not refreshed again and the call resumes towards the domain
\* request; and every get/post completes.
C28_SingleRefresh ==
    /\ [](\A p \in Procs : IsGetPost(p) => Cardinality(TokenIdx(p)) <= 1)
    /\ [][\A p \in Procs :
            (IsGetPost(p) /\ pc[p] = "tokWait" /\ tokResp'[p].kind = "ok"
                /\ ParseDate(tokResp'[p].end) # InvalidDate
                /\ ParseDate(tokResp'[p].end) < now + OneHour)
              => pc'[p] = "resume" /\ net'[p] = net[p]]_vars
    /\ \A p \in Procs : (IsGetPost(p) /\ pc[p] # "idle") ~> pc[p] = "idle"

C28_Witness ==
    \E p \in Procs :
        /\ op[p] = "get" /\ refreshed[p] /\ tokResp[p].kind = "ok"
        /\ ParseDate(tokResp[p].end) # InvalidDate
        /\ ParseDate(tokResp[p].end) < now + OneHour
        /\ Len(net[p]) = 2 /\ net[p][2].kind = "domain"
        /\ net[p][2].hdr = TokStr(tokResp[p].key)

RefreshInFlight(p) ==
    /\ pc[p] = "tokWait" /\ Len(net[p]) > 0
    /\ net[p][Len(net[p])].body.grant_type = "refresh_key"
SentRefreshKey(p) == net[p][Len(net[p])].body.refresh_key

\* each successful response overwrites the session: the last to arrive wins
C29_LastWriterWins ==
    [][\A p \in Procs :
         (RefreshInFlight(p) /\ tokResp'[p].kind = "ok")
           => /\ requestKey'[ClientA] = tokResp'[p].key
              /\ refreshKey'[ClientA] = tokResp'[p].rkey]_vars

\* C29 (as stated): two refreshes in flight on one instance sent the same
\* refresh key, and each successful response overwrites the session, the last
\* one to arrive winning, even when the other refresh has already rotated the
\* refresh key.
C29_OverlappingRefreshes ==
    /\ [](\A p, q \in Procs :
            (p # q /\ RefreshInFlight(p) /\ RefreshInFlight(q))
              => SentRefreshKey(p) = SentRefreshKey(q))
    /\ C29_LastWriterWins

\* C29 (amended): each refresh sends the refresh key held when it starts, and
\* that key changes only when a token response is stored (or on clearAuth), so
\* two overlapping refreshes send the same key unless a response, e.g. of a
\* concurrent authenticate(), was stored between their starts; the last
\* successful response wins.
C29_OverlappingRefreshesAmended ==
    /\ [][\A p \in Procs :
            (~RefreshInFlight(p) /\ RefreshInFlight(p)')
              => SentRefreshKey(p)' = refreshKey[ClientA]]_vars
    /\ [][refreshKey'[ClientA] # refreshKey[ClientA]
            => \E p \in Procs : (pc[p] = "tokWait" /\ tokResp'[p].kind = "ok") \/ clearAuth(p)]_vars
    /\ C29_LastWriterWins

\* one refresh has completed and rotated the refresh key; the other is still in
\* flight with the old one
C29_Witness ==
    \E p, q \in Procs :
        /\ p # q /\ tokResp[p].kind = "ok" /\ Len(net[p]) > 0
        /\ net[p][Len(net[p])].body.grant_type = "refresh_key"
        /\ RefreshInFlight(q) /\ SentRefreshKey(q) = net[p][Len(net[p])].body.refresh_key
        /\ SentRefreshKey(q) # refreshKey[ClientA]

InvalidSession == requestKey[ClientA] # Null /\ requestKeyExpiresAt[ClientA] = InvalidDate

\* C30: with a token whose end_time parsed to an Invalid Date, get/post never
\* refresh and go on to the domain request, which carries that token;
\* isAuthenticated() returns false and getRequestKey() returns the token.
C30_InvalidExpiry ==
    [][\A p \in Procs :
         /\ ((get(p) \/ post(p)) /\ InvalidSession)
              => pc'[p] = "resume" /\ ~refreshed'[p] /\ net'[p] = <<>>
         /\ (DomainSend(p) /\ InvalidSession)
              => /\ Len(net'[p]) = Len(net[p]) + 1
                 /\ net'[p][Len(net'[p])].hdr = TokStr(requestKey[ClientA])
         /\ (isAuthenticated(p) /\ InvalidSession) => ret'[p].b = FALSE
         /\ (getRequestKey(p) /\ InvalidSession)
              => ret'[p] = [NoRet EXCEPT !.tag = "ok", !.key = requestKey[ClientA]]]_vars

C30_Witness ==
    \E p \in Procs :
        /\ op[p] = "get" /\ InvalidSession /\ ~refreshed[p]
        /\ Len(net[p]) = 1 /\ net[p][1].kind = "domain"
        /\ net[p][1].hdr = TokStr(requestKey[ClientA])

====
